---------------------------- MODULE Spec2Model ----------------------------
(***************************************************************************)
(* Model of the expense splitter: the balance calculator                   *)
(* splitExpensesByGroups and the settlement planner organizePayments       *)
(* (app/utils/helpers.ts), and the application around them, the state      *)
(* cookie (app/actions.ts), the server actions of the page (app/page.tsx)  *)
(* and the groups route.                                                   *)
(*                                                                         *)
(* Numbers.  The source computes on IEEE doubles.  Every amount of the     *)
(* model is an integer multiple of Unit, the least common multiple of all  *)
(* divisors participants.length can take, so every division of the model   *)
(* is exact and the doubles of the source hold exactly the integers of the *)
(* model (all far below 2^53).                                             *)
(***************************************************************************)
EXTENDS Integers, Sequences, FiniteSets, TLC

\* ------------------------------------------------------------------ bounds
\* Longest balance list handed to organizePayments.
MaxBalances == 3
\* Largest absolute balance amount handed to organizePayments.
MaxBalanceAmount == 3

\* Largest size of the arguments handed to splitExpensesByGroups: two for
\* each expense (its payer and its amount), one for each group and one for
\* each participant of a group.
MaxArgumentSize == 7
\* Largest expense amount, in units of Unit.
MaxAmount == 1

\* Largest size of the state that the application stores, counted as the
\* arguments of splitExpensesByGroups are.
MaxStateSize == 4
\* Longest participant list of a request to the groups route.
MaxParticipants == 2
\* Latest value of the clock.
MaxTimestamp == 1

\* Number of concurrent invocations of the core functions.
MaxInvocations == 2

\* Largest number of expenses in a cookie of the first version.
MaxLegacyExpenses == 2

\* ------------------------------------------------------------- small helpers
\* Math.abs
Abs(x) == IF x < 0 THEN -x ELSE x

\* Math.min
Min(x, y) == IF x <= y THEN x ELSE y

\* null, undefined and an absent key of a JavaScript object are the empty
\* sequence; a present value v of a nullable field is <<v>>.
Null == <<>>
Some(v) == <<v>>

RECURSIVE SumAmounts(_)
\* The sum of the amount fields of a list of records.
SumAmounts(s) == IF s = <<>> THEN 0 ELSE s[1].amount + SumAmounts(Tail(s))

\* ------------------------------------------------------- organizePayments
VARIABLES balances, debtors, creditors, debtorIndex, creditorIndex,
          transactions, payPc, payResult

payVars == <<balances, debtors, creditors, debtorIndex, creditorIndex,
             transactions, payPc, payResult>>

\* The arguments, the position and the result of a call of
\* splitExpensesByGroups, and the result of splitExpensesEqually on the same
\* expenses once the caller has asked for it.
VARIABLES expenses, groups, splitPc, splitResult, equalResult

splitVars == <<expenses, groups, splitPc, splitResult, equalResult>>

\* The application: the state cookie of the browser and the module variable
\* errorMessage of the page.
VARIABLES cookie, errorMessage

appVars == <<cookie, errorMessage>>

\* invocations[c]: the function that invocation c runs, its position, its
\* arguments and its result.  frames[f]: the locals held by activation
\* record f.
VARIABLES invocations, frames

concVars == <<invocations, frames>>

vars == <<payVars, splitVars, appVars, concVars>>

\* Object identity.  The elements of the argument are objects of the caller;
\* a record of a working list carries in `origin` the index of the element of
\* the argument that it is, or 0 when it is an object of its own.  A write to
\* a working record with an origin is a write to the caller's object.

\* The identity function in place of the copy: the creditor is the
\* caller's object.
Spread_SameObject(b, i) == [person |-> b.person, amount |-> b.amount, origin |-> i]

\* ({ ...b }) on the element i of the argument: a new object with the
\* fields of b.
Spread(b, i) == [person |-> b.person, amount |-> b.amount, origin |-> 0]

\* `b.amount > 0` in place of `b.amount < 0`: the debtors are the creditors.
NegativeIndices_Positive(bs) ==
    SelectSeq([i \in 1..Len(bs) |-> i], LAMBDA i : bs[i].amount > 0)

\* The indices of the elements of bs that pass the test of a filter, in
\* list order.
NegativeIndices(bs) == SelectSeq([i \in 1..Len(bs) |-> i], LAMBDA i : bs[i].amount < 0)
PositiveIndices(bs) == SelectSeq([i \in 1..Len(bs) |-> i], LAMBDA i : bs[i].amount > 0)

\* (b) => ({ ...b, amount: Math.abs(b.amount) }): an object literal, hence a
\* new object, with the amount replaced.
MapAbs(b) == [person |-> b.person, amount |-> Abs(b.amount), origin |-> 0]

RECURSIVE MapAbsAll(_, _)
\* .map(...) over the elements of bs at the indices, in their order.
MapAbsAll(bs, indices) ==
    IF indices = <<>> THEN <<>>
    ELSE <<MapAbs(bs[indices[1]])>> \o MapAbsAll(bs, Tail(indices))

RECURSIVE SpreadAll(_, _)
SpreadAll(bs, indices) ==
    IF indices = <<>> THEN <<>>
    ELSE <<Spread(bs[indices[1]], indices[1])>> \o SpreadAll(bs, Tail(indices))

\* balances.filter((b) => b.amount < 0).map(...)
FilterDebtors(bs) == MapAbsAll(bs, NegativeIndices(bs))

\* balances.filter((b) => b.amount > 0).map((b) => ({ ...b }))
FilterCreditors(bs) == SpreadAll(bs, PositiveIndices(bs))

\* The argument after the writes to the working records: an element that a
\* working record is holds the amount of that record.
WrittenThrough(bs, working) ==
    [i \in 1..Len(bs) |->
        IF \E k \in 1..Len(working) : working[k].origin = i
        THEN [bs[i] EXCEPT !.amount =
                 working[CHOOSE k \in 1..Len(working) : working[k].origin = i].amount]
        ELSE bs[i]]

\* Insert x into a list sorted by descending amount, behind its equals.
InsertDesc(sorted, x) ==
    LET before == SelectSeq(sorted, LAMBDA y : y.amount >= x.amount)
        after  == SelectSeq(sorted, LAMBDA y : y.amount < x.amount)
    IN  before \o <<x>> \o after

RECURSIVE SortDescFrom(_, _)
SortDescFrom(sorted, rest) ==
    IF rest = <<>> THEN sorted
    ELSE SortDescFrom(InsertDesc(sorted, rest[1]), Tail(rest))

\* No sort: the list stays in input order.
SortDesc_InputOrder(s) == s

\* list.sort((a, b) => b.amount - a.amount): Array.prototype.sort is stable,
\* so equal amounts keep their input order.
SortDesc(s) == SortDescFrom(<<>>, s)

\* The condition of the while loop.
LoopCond(st) ==
    /\ st.debtorIndex < Len(st.debtors)
    /\ st.creditorIndex < Len(st.creditors)

\* --- variants of the loop body with one slip each, to probe the statements
\* The result of an iteration, from its parts.
LoopResult(st, dAmount, cAmount, pushed, dStep, cStep) ==
    [debtors  |-> [st.debtors EXCEPT ![st.debtorIndex + 1].amount = dAmount],
     creditors |-> [st.creditors EXCEPT ![st.creditorIndex + 1].amount = cAmount],
     transactions |-> st.transactions \o pushed,
     debtorIndex  |-> IF dStep THEN st.debtorIndex + 1 ELSE st.debtorIndex,
     creditorIndex |-> IF cStep THEN st.creditorIndex + 1 ELSE st.creditorIndex]

\* `debtor.amount -= transferAmount` is missing.
LoopBody_NoDebtorUpdate(st) ==
    LET debtor   == st.debtors[st.debtorIndex + 1]
        creditor == st.creditors[st.creditorIndex + 1]
        transferAmount == Min(debtor.amount, creditor.amount)
        cAmount  == IF transferAmount > 0 THEN creditor.amount - transferAmount
                    ELSE creditor.amount
    IN  LoopResult(st, debtor.amount, cAmount,
                   IF transferAmount > 0
                   THEN <<[person |-> debtor.person, amount |-> transferAmount,
                           creditor |-> creditor.person]>>
                   ELSE <<>>,
                   debtor.amount = 0, cAmount = 0)

\* `creditor.amount -= transferAmount` is missing.
LoopBody_NoCreditorUpdate(st) ==
    LET debtor   == st.debtors[st.debtorIndex + 1]
        creditor == st.creditors[st.creditorIndex + 1]
        transferAmount == Min(debtor.amount, creditor.amount)
        dAmount  == IF transferAmount > 0 THEN debtor.amount - transferAmount
                    ELSE debtor.amount
    IN  LoopResult(st, dAmount, creditor.amount,
                   IF transferAmount > 0
                   THEN <<[person |-> debtor.person, amount |-> transferAmount,
                           creditor |-> creditor.person]>>
                   ELSE <<>>,
                   dAmount = 0, creditor.amount = 0)

\* `debtorIndex++` without its test: every iteration takes the next debtor.
LoopBody_AlwaysNextDebtor(st) ==
    LET debtor   == st.debtors[st.debtorIndex + 1]
        creditor == st.creditors[st.creditorIndex + 1]
        transferAmount == Min(debtor.amount, creditor.amount)
        dAmount  == IF transferAmount > 0 THEN debtor.amount - transferAmount
                    ELSE debtor.amount
        cAmount  == IF transferAmount > 0 THEN creditor.amount - transferAmount
                    ELSE creditor.amount
    IN  LoopResult(st, dAmount, cAmount,
                   IF transferAmount > 0
                   THEN <<[person |-> debtor.person, amount |-> transferAmount,
                           creditor |-> creditor.person]>>
                   ELSE <<>>,
                   TRUE, cAmount = 0)

\* `creditor: debtor.person` in the pushed payment.
LoopBody_CreditorIsDebtor(st) ==
    LET debtor   == st.debtors[st.debtorIndex + 1]
        creditor == st.creditors[st.creditorIndex + 1]
        transferAmount == Min(debtor.amount, creditor.amount)
        dAmount  == IF transferAmount > 0 THEN debtor.amount - transferAmount
                    ELSE debtor.amount
        cAmount  == IF transferAmount > 0 THEN creditor.amount - transferAmount
                    ELSE creditor.amount
    IN  LoopResult(st, dAmount, cAmount,
                   IF transferAmount > 0
                   THEN <<[person |-> debtor.person, amount |-> transferAmount,
                           creditor |-> debtor.person]>>
                   ELSE <<>>,
                   dAmount = 0, cAmount = 0)

\* `const transferAmount = 1`: a pair settles one unit at a time.
LoopBody_UnitTransfers(st) ==
    LET debtor   == st.debtors[st.debtorIndex + 1]
        creditor == st.creditors[st.creditorIndex + 1]
        transferAmount == Min(1, Min(debtor.amount, creditor.amount))
        dAmount  == IF transferAmount > 0 THEN debtor.amount - transferAmount
                    ELSE debtor.amount
        cAmount  == IF transferAmount > 0 THEN creditor.amount - transferAmount
                    ELSE creditor.amount
    IN  LoopResult(st, dAmount, cAmount,
                   IF transferAmount > 0
                   THEN <<[person |-> debtor.person, amount |-> transferAmount,
                           creditor |-> creditor.person]>>
                   ELSE <<>>,
                   dAmount = 0, cAmount = 0)

\* No `if (transferAmount > 0)` around the push, and `else if` before the
\* creditor's test: one cursor moves per iteration.
LoopBody_UnguardedElseIf(st) ==
    LET debtor   == st.debtors[st.debtorIndex + 1]
        creditor == st.creditors[st.creditorIndex + 1]
        transferAmount == Min(debtor.amount, creditor.amount)
        dAmount  == debtor.amount - transferAmount
        cAmount  == creditor.amount - transferAmount
    IN  LoopResult(st, dAmount, cAmount,
                   <<[person |-> debtor.person, amount |-> transferAmount,
                      creditor |-> creditor.person]>>,
                   dAmount = 0, dAmount # 0 /\ cAmount = 0)

\* One iteration of the while loop on the planner's local state
\* (indices are 0-based as in the source; sequences are 1-based).
LoopBody(st) ==
    LET debtor   == st.debtors[st.debtorIndex + 1]
        creditor == st.creditors[st.creditorIndex + 1]
        transferAmount == Min(debtor.amount, creditor.amount)
        pays     == transferAmount > 0
        dAmount  == IF pays THEN debtor.amount - transferAmount ELSE debtor.amount
        cAmount  == IF pays THEN creditor.amount - transferAmount ELSE creditor.amount
    IN  [debtors  |-> [st.debtors EXCEPT ![st.debtorIndex + 1].amount = dAmount],
         creditors |-> [st.creditors EXCEPT ![st.creditorIndex + 1].amount = cAmount],
         transactions |->
             IF pays
             THEN Append(st.transactions,
                         [person |-> debtor.person,
                          amount |-> transferAmount,
                          creditor |-> creditor.person])
             ELSE st.transactions,
         debtorIndex  |-> IF dAmount = 0 THEN st.debtorIndex + 1 ELSE st.debtorIndex,
         creditorIndex |-> IF cAmount = 0 THEN st.creditorIndex + 1 ELSE st.creditorIndex]

\* The planner's local state when the loop is entered.
LoopEntry(bs) ==
    [debtors |-> SortDesc(FilterDebtors(bs)),
     creditors |-> SortDesc(FilterCreditors(bs)),
     transactions |-> <<>>,
     debtorIndex |-> 0,
     creditorIndex |-> 0]

\* The two early returns: an empty argument, or nobody owes / nobody is owed.
ReturnsEarly(bs) ==
    \/ Len(bs) = 0
    \/ Len(FilterDebtors(bs)) = 0
    \/ Len(FilterCreditors(bs)) = 0

RECURSIVE RunLoop(_)
RunLoop(st) == IF LoopCond(st) THEN RunLoop(LoopBody(st)) ELSE st.transactions

\* organizePayments as a function of its argument.
OrganizePayments(bs) == IF ReturnsEarly(bs) THEN <<>> ELSE RunLoop(LoopEntry(bs))

\* The planner's local state, read from the variables.
PayState ==
    [debtors |-> debtors, creditors |-> creditors, transactions |-> transactions,
     debtorIndex |-> debtorIndex, creditorIndex |-> creditorIndex]

\* Names are opaque strings that the planner only compares for equality, so
\* the argument lists are enumerated up to renaming: the first record is
\* named "A" and each later record takes a name already used or the next
\* unused one.
NameList == <<"A", "B", "C", "D", "E", "F", "G", "H">>

BalanceAmounts == (-MaxBalanceAmount)..MaxBalanceAmount

NamesUsed(s) == Cardinality({s[i].person : i \in 1..Len(s)})

\* No call of splitExpensesByGroups is under way.
SplitIdle == expenses = <<>> /\ groups = <<>> /\ splitPc = "start"

\* No call of organizePayments is under way.
PayIdle == balances = <<>> /\ payPc = "start"

PayInit ==
    /\ balances = <<>>
    /\ debtors = <<>>
    /\ creditors = <<>>
    /\ debtorIndex = 0
    /\ creditorIndex = 0
    /\ transactions = <<>>
    /\ payPc = "start"
    /\ payResult = <<>>

\* The caller builds the argument: one more balance record, with a name
\* already used or the next unused one, and any amount.
PayArgument ==
    /\ SplitIdle
    /\ payPc = "start"
    /\ Len(balances) < MaxBalances
    /\ \E j \in 1..(NamesUsed(balances) + 1), a \in BalanceAmounts :
           balances' = Append(balances, [person |-> NameList[j], amount |-> a])
    /\ UNCHANGED <<debtors, creditors, debtorIndex, creditorIndex,
                   transactions, payPc, payResult>>
    /\ UNCHANGED <<splitVars, appVars, concVars>>

\* Entry of organizePayments up to the loop: the early returns, the
\* partition into debtors and creditors, the two sorts.
PayEnter ==
    /\ SplitIdle
    /\ payPc = "start"
    /\ IF ReturnsEarly(balances)
       THEN /\ payPc' = "done"
            /\ payResult' = <<>>
            /\ UNCHANGED <<debtors, creditors, debtorIndex, creditorIndex, transactions>>
       ELSE LET entry == LoopEntry(balances)
            IN  /\ debtors' = entry.debtors
                /\ creditors' = entry.creditors
                /\ debtorIndex' = entry.debtorIndex
                /\ creditorIndex' = entry.creditorIndex
                /\ transactions' = entry.transactions
                /\ payPc' = "loop"
                /\ UNCHANGED payResult
    /\ UNCHANGED <<balances, splitVars, appVars, concVars>>

\* One iteration of the while loop.
PayIterate ==
    /\ payPc = "loop"
    /\ LoopCond(PayState)
    /\ LET after == LoopBody(PayState)
       IN  /\ debtors' = after.debtors
           /\ creditors' = after.creditors
           /\ debtorIndex' = after.debtorIndex
           /\ creditorIndex' = after.creditorIndex
           /\ transactions' = after.transactions
           /\ balances' = WrittenThrough(balances, after.debtors \o after.creditors)
    /\ UNCHANGED <<payPc, payResult, splitVars, appVars, concVars>>

\* The loop condition fails: return transactions.
PayReturn ==
    /\ payPc = "loop"
    /\ ~LoopCond(PayState)
    /\ payPc' = "done"
    /\ payResult' = transactions
    /\ UNCHANGED <<balances, debtors, creditors, debtorIndex, creditorIndex, transactions>>
    /\ UNCHANGED <<splitVars, appVars, concVars>>

PayNext == PayArgument \/ PayEnter \/ PayIterate \/ PayReturn


\* -------------------------------------------------- splitExpensesByGroups
\* expense.groupId when the expense has none: undefined (or ""), both falsy
\* in the test `expense.groupId && groupMap.has(expense.groupId)`.
NoGroupId == ""

\* The elements of a sequence.
Range(s) == {s[i] : i \in 1..Len(s)}

\* Set.prototype.add on an insertion-ordered Set kept as a sequence.
SetAdd(set, x) == IF x \in Range(set) THEN set ELSE Append(set, x)

RECURSIVE SetAddAll(_, _)
\* list.forEach((x) => set.add(x))
SetAddAll(set, list) ==
    IF list = <<>> THEN set ELSE SetAddAll(SetAdd(set, list[1]), Tail(list))

RECURSIVE Persons(_)
\* The payers of an expense list, in list order.
Persons(es) == IF es = <<>> THEN <<>> ELSE <<es[1].person>> \o Persons(Tail(es))

RECURSIVE AllParticipants(_)
\* The participants of all groups, in list order.
AllParticipants(gs) ==
    IF gs = <<>> THEN <<>> ELSE gs[1].participants \o AllParticipants(Tail(gs))

\* The two forEach statements in the other order: participants first.
AllPeople_GroupsFirst(es, gs) == SetAddAll(SetAddAll(<<>>, AllParticipants(gs)), Persons(es))

\* `groups.forEach((g) => g.participants.forEach(...))` is missing.
AllPeople_PayersOnly(es, gs) == SetAddAll(<<>>, Persons(es))

\* allPeople: every payer, then every group participant, each once, in the
\* order of first insertion.
AllPeople(es, gs) == SetAddAll(SetAddAll(<<>>, Persons(es)), AllParticipants(gs))

\* groupMap.has(id)
GroupMapHas(gs, id) == \E i \in 1..Len(gs) : gs[i].id = id

\* groupMap.get(id): groupMap.set overwrites, so the last group with the id.
GroupMapGet(gs, id) ==
    LET last == CHOOSE i \in 1..Len(gs) :
                    /\ gs[i].id = id
                    /\ \A j \in (i + 1)..Len(gs) : gs[j].id # id
    IN  gs[last]

\* An insertion-ordered Map<string, number> is a sequence of entries.
MapHas(m, k) == \E i \in 1..Len(m) : m[i].person = k

\* balances.get(k) || 0
MapGetOr0(m, k) ==
    IF MapHas(m, k) THEN m[CHOOSE i \in 1..Len(m) : m[i].person = k].amount ELSE 0

\* map.set(k, v): an existing key keeps its place, a new key goes last.
MapSet(m, k, v) ==
    IF MapHas(m, k)
    THEN [m EXCEPT ![CHOOSE i \in 1..Len(m) : m[i].person = k].amount = v]
    ELSE Append(m, [person |-> k, amount |-> v])

RECURSIVE InitBalances(_)
\* allPeople.forEach((person) => balances.set(person, 0))
InitBalances(people) ==
    IF people = <<>> THEN <<>>
    ELSE MapSet(InitBalances(SubSeq(people, 1, Len(people) - 1)), people[Len(people)], 0)

\* An id that no group carries shares the expense among nobody.
Participants_NoFallback(expense, people, gs) ==
    IF expense.groupId = NoGroupId THEN people
    ELSE IF GroupMapHas(gs, expense.groupId)
         THEN GroupMapGet(gs, expense.groupId).participants
         ELSE <<>>

\* Every expense is shared by everyone, whatever its groupId.
Participants_Everyone(expense, people, gs) == people

\* The list of names that share an expense.
Participants(expense, people, gs) ==
    IF expense.groupId # NoGroupId /\ GroupMapHas(gs, expense.groupId)
    THEN GroupMapGet(gs, expense.groupId).participants
    ELSE people

\* expense.amount / participants.length.  A division by zero gives Infinity
\* or NaN; the share is then read by nobody, the debit loop having no turn.
Share(amount, n) == IF n = 0 THEN "non-finite" ELSE amount \div n

RECURSIVE Debit(_, _, _)
\* for (const participant of participants) balances.set(participant, ... - share)
Debit(m, participants, share) ==
    IF participants = <<>> THEN m
    ELSE Debit(MapSet(m, participants[1], MapGetOr0(m, participants[1]) - share),
               Tail(participants), share)

\* The share is amount / allPeople.size whoever shares the expense.
ProcessExpense_ShareOfEveryone(m, expense, people, gs) ==
    LET credited == MapSet(m, expense.person, MapGetOr0(m, expense.person) + expense.amount)
        participants == Participants(expense, people, gs)
    IN  Debit(credited, participants, Share(expense.amount, Len(people)))

\* The sharing list is read as a set: each name in it is debited once.
ProcessExpense_DistinctParticipants(m, expense, people, gs) ==
    LET credited == MapSet(m, expense.person, MapGetOr0(m, expense.person) + expense.amount)
        participants == SetAddAll(<<>>, Participants(expense, people, gs))
    IN  Debit(credited, participants, Share(expense.amount, Len(participants)))

\* An expense that nobody shares is skipped, credit included.
ProcessExpense_SkipsUnshared(m, expense, people, gs) ==
    LET credited == MapSet(m, expense.person, MapGetOr0(m, expense.person) + expense.amount)
        participants == Participants(expense, people, gs)
    IN  IF participants = <<>> THEN m
        ELSE Debit(credited, participants, Share(expense.amount, Len(participants)))

\* The body of `for (const expense of expenses)`.
ProcessExpense(m, expense, people, gs) ==
    LET credited == MapSet(m, expense.person, MapGetOr0(m, expense.person) + expense.amount)
        participants == Participants(expense, people, gs)
    IN  Debit(credited, participants, Share(expense.amount, Len(participants)))

RECURSIVE ProcessExpenses(_, _, _, _)
ProcessExpenses(m, es, people, gs) ==
    IF es = <<>> THEN m
    ELSE ProcessExpenses(ProcessExpense(m, es[1], people, gs), Tail(es), people, gs)

\* `if (!expenses.length) return []` is missing.
SplitExpensesByGroups_NoEmptyCheck(es, gs) ==
    ProcessExpenses(InitBalances(AllPeople(es, gs)), es, AllPeople(es, gs), gs)

\* splitExpensesByGroups as a function of its arguments.  The entries of the
\* result are {id: `balance-${person}`, person, amount}; the id, a function
\* of person that nothing reads, is left out.
SplitExpensesByGroups(es, gs) ==
    IF Len(es) = 0 THEN <<>>
    ELSE ProcessExpenses(InitBalances(AllPeople(es, gs)), es, AllPeople(es, gs), gs)

\* expenses.reduce((acc, expense) => (acc += expense.amount), 0)
CalculateTotalExpenses(es) == SumAmounts(es)

RECURSIVE GroupExpensesByPerson(_)
\* The reduce into a Map: acc.set(person, (acc.get(person) || 0) + amount).
GroupExpensesByPerson(es) ==
    IF es = <<>> THEN <<>>
    ELSE LET acc == GroupExpensesByPerson(SubSeq(es, 1, Len(es) - 1))
             expense == es[Len(es)]
         IN  MapSet(acc, expense.person, MapGetOr0(acc, expense.person) + expense.amount)

\* One balance per expense, the total divided by the number of expenses.
SplitExpensesEqually_PerExpense(es) ==
    IF Len(es) = 0 THEN <<>>
    ELSE LET equalShare == CalculateTotalExpenses(es) \div Len(es)
         IN  [k \in 1..Len(es) |->
                 [person |-> es[k].person, amount |-> es[k].amount - equalShare]]

\* splitExpensesEqually: one balance per payer, in the order of the Map.
\* The total is a multiple of Unit and there are at most MaxArgumentSize
\* payers, so the division is exact.
SplitExpensesEqually(es) ==
    IF Len(es) = 0 THEN <<>>
    ELSE LET groupedExpenses == GroupExpensesByPerson(es)
             totalExpenses == CalculateTotalExpenses(es)
             peopleCount == Len(groupedExpenses)
             equalShare == totalExpenses \div peopleCount
         IN  [k \in 1..peopleCount |->
                 [person |-> groupedExpenses[k].person,
                  amount |-> groupedExpenses[k].amount - equalShare]]

\* --- the arguments
RECURSIVE Lcm1To(_)
Gcd(a, b) == CHOOSE d \in 1..a : a % d = 0 /\ b % d = 0 /\
                 \A e \in (d + 1)..a : ~(a % e = 0 /\ b % e = 0)
Lcm1To(n) == IF n <= 1 THEN 1 ELSE (Lcm1To(n - 1) * n) \div Gcd(Lcm1To(n - 1), n)

\* Every amount is a multiple of Unit, so that every share is exact:
\* participants.length never exceeds the size of the arguments.
Unit == Lcm1To(MaxArgumentSize)

ExpenseAmounts == {k * Unit : k \in 0..MaxAmount}

\* Group ids are unique: the i-th group of the list has the i-th id.
GroupIdList == <<"g1", "g2">>

\* An expense names no group or one of the ids; the id resolves when the
\* group list is long enough to hold it.
ExpenseGroupIds == {NoGroupId} \cup Range(GroupIdList)

\* The number of distinct names in the arguments built so far.
ArgNames == Len(AllPeople(expenses, groups))

\* The size of the arguments built so far.
ArgSize == 2 * Len(expenses) + Len(groups) + Len(AllParticipants(groups))

SplitInit ==
    /\ expenses = <<>>
    /\ groups = <<>>
    /\ splitPc = "start"
    /\ splitResult = <<>>
    /\ equalResult = Null

\* The caller appends an expense (names up to renaming, as for the planner).
SplitArgExpense ==
    /\ PayIdle
    /\ splitPc = "start"
    /\ groups = <<>>
    /\ ArgSize + 2 <= MaxArgumentSize
    /\ \E j \in 1..(ArgNames + 1), a \in ExpenseAmounts, g \in ExpenseGroupIds :
           expenses' = Append(expenses, [person |-> NameList[j], amount |-> a, groupId |-> g])
    /\ UNCHANGED <<groups, splitPc, splitResult, equalResult, payVars, appVars, concVars>>

\* The caller appends a group without participants.
SplitArgGroup ==
    /\ PayIdle
    /\ splitPc = "start"
    /\ Len(groups) < Len(GroupIdList)
    /\ ArgSize + 1 <= MaxArgumentSize
    /\ groups' = Append(groups, [id |-> GroupIdList[Len(groups) + 1], participants |-> <<>>])
    /\ UNCHANGED <<expenses, splitPc, splitResult, equalResult, payVars, appVars, concVars>>

\* The caller appends a participant to the last group.
SplitArgParticipant ==
    /\ PayIdle
    /\ splitPc = "start"
    /\ Len(groups) > 0
    /\ ArgSize + 1 <= MaxArgumentSize
    /\ \E j \in 1..(ArgNames + 1) :
           groups' = [groups EXCEPT ![Len(groups)].participants = Append(@, NameList[j])]
    /\ UNCHANGED <<expenses, splitPc, splitResult, equalResult, payVars, appVars, concVars>>

\* The call of splitExpensesByGroups(expenses, groups).
SplitCall ==
    /\ PayIdle
    /\ splitPc = "start"
    /\ splitResult' = SplitExpensesByGroups(expenses, groups)
    /\ splitPc' = "done"
    /\ UNCHANGED <<expenses, groups, equalResult, payVars, appVars, concVars>>

\* The call of splitExpensesEqually(expenses) on the expenses of the call
\* before.
SplitEquallyCall ==
    /\ PayIdle
    /\ splitPc = "done"
    /\ equalResult = Null
    /\ equalResult' = Some(SplitExpensesEqually(expenses))
    /\ UNCHANGED <<expenses, groups, splitPc, splitResult, payVars, appVars, concVars>>

SplitNext ==
    \/ SplitArgExpense
    \/ SplitArgGroup
    \/ SplitArgParticipant
    \/ SplitCall
    \/ SplitEquallyCall

\* ------------------------------------------------------------ application
\* { ...a, ...b }
Merge(a, b) == [k \in DOMAIN a \cup DOMAIN b |-> IF k \in DOMAIN b THEN b[k] ELSE a[k]]

\* The object without one of its keys.
Without(object, key) == [k \in DOMAIN object \ {key} |-> object[k]]

CURRENT_VERSION == 2

defaultState ==
    [version |-> 2, expenses |-> <<>>, groups |-> <<>>, debts |-> Null,
     language |-> "es", theme |-> "dark"]

Languages == {"es", "en"}

\* translations[language].errorMessage: one text for each language.
translations(language) == "errorMessage." \o language

\* (exp, index) => ({ ...exp, id: exp.id || `migrated-${index}-${Date.now()}` });
\* the time at the end of the generated id is left out.
MigratedExpense(exp, index) ==
    IF "id" \in DOMAIN exp /\ exp.id # ""
    THEN exp
    ELSE Merge(exp, [id |-> "migrated-" \o ToString(index)])

\* `{ ...migrated, ...defaultState }`: the defaults win over what is stored.
migrateState_DefaultsWin(state) == Merge(state, defaultState)

migrateState(state) ==
    LET version == IF "version" \in DOMAIN state /\ state.version # 0
                   THEN state.version ELSE 1
        stored  == IF "expenses" \in DOMAIN state THEN state.expenses ELSE <<>>
        migrated ==
            IF version < 2
            THEN Merge(state,
                       [expenses |-> [i \in 1..Len(stored) |-> MigratedExpense(stored[i], i - 1)],
                        groups |-> IF "groups" \in DOMAIN state THEN state.groups ELSE <<>>,
                        version |-> CURRENT_VERSION])
            ELSE state
    IN  Merge(defaultState, migrated)

\* getState(): the cookie's value, or "{}" without a cookie, parsed and
\* migrated.
getState == migrateState(IF cookie = Null THEN [k \in {} |-> Null] ELSE cookie[1])

\* `{ ...defaultState, ...updatedState }`: the update replaces the state.
setState_Replaces(updatedState) == Merge(defaultState, updatedState)

\* The new state that setState(updatedState) writes and returns.
setState(updatedState) == Merge(getState, updatedState)

\* JSON.parse(JSON.stringify(debt)): JSON.stringify leaves out a key whose
\* value is undefined.
JsonDebt(debt) ==
    IF "settledAt" \in DOMAIN debt /\ debt.settledAt = Null
    THEN Without(debt, "settledAt")
    ELSE debt

\* The value of the cookie after requestCookies.set(stateCookieId,
\* JSON.stringify(newState)), as JSON.parse reads it back.  Strings, finite
\* numbers, lists and null come back as they went in.
Stored(newState) ==
    Some([newState EXCEPT !.debts =
              IF @ = Null THEN Null
              ELSE Some([i \in 1..Len(@[1]) |-> JsonDebt(@[1][i])])])

\* The size of a stored state, counted as the arguments of
\* splitExpensesByGroups are.
StateSize(es, gs) == 2 * Len(es) + Len(gs) + Len(AllParticipants(gs))

\* The names a request may carry, up to renaming: the names of the stored
\* state and one more.
RequestNames == {NameList[j] : j \in 1..(Len(AllPeople(getState.expenses, getState.groups)) + 1)}

\* --- setExpense
\* The texts of the form's person field: nothing, a name, the first name
\* behind a blank.
PersonInputs == {""} \cup RequestNames \cup {" " \o NameList[1]}

\* String.prototype.trim on the person inputs.
Trim(s) ==
    IF \E n \in Range(NameList) : s = " " \o n
    THEN CHOOSE n \in Range(NameList) : s = " " \o n
    ELSE s

\* The texts of the form's amount field.
AmountInputs == {"", "abc", "1", "-1", "1,0"}

\* amountRaw.replace(",", "."): the first comma becomes a dot.
ReplaceComma(s) == IF s = "1,0" THEN "1.0" ELSE s

\* Number(text) on the amount inputs: <<the number>>, or Null for NaN.
\* Amounts are counted in 1/Unit of the currency unit.
Number(s) ==
    CASE s = ""    -> Some(0)
      [] s = "1"   -> Some(Unit)
      [] s = "-1"  -> Some(-Unit)
      [] s = "1.0" -> Some(Unit)
      [] OTHER     -> Null

\* Number(amount) || 0
NumberOrZero(s) == IF Number(s) = Null THEN 0 ELSE Number(s)[1]

\* generateExpenseId(): a time and a random number.
GeneratedIds == {"id-a"}

\* newExpense: { id: generateExpenseId(), person: person.trim(),
\* amount: Number(amount) || 0, groupId: groupId || undefined }
NewExpense(id, person, amount, groupId) ==
    [id |-> id,
     person |-> Trim(person),
     amount |-> NumberOrZero(amount),
     groupId |-> IF groupId = "" THEN NoGroupId ELSE groupId]

\* The updater that setExpense hands to setState (debts computed on the
\* expense list before the addition).
AddExpense_StaleDebts(prevState, newExpense) ==
    [expenses |-> Append(prevState.expenses, newExpense),
     debts |-> Some(OrganizePayments(SplitExpensesByGroups(prevState.expenses,
                                                           prevState.groups)))]

\* The updater that setExpense hands to setState, with
\* `{ ...prev.debts?.[index], ...debt }` for every new debt: the payment at
\* an index keeps the settlement of the payment that was there.
AddExpense_KeepsSettlement(prevState, newExpense) ==
    LET updatedExpenses == Append(prevState.expenses, newExpense)
        splitExpenses   == SplitExpensesByGroups(updatedExpenses, prevState.groups)
        organizedDebts  == OrganizePayments(splitExpenses)
        previous        == IF prevState.debts = Null THEN <<>> ELSE prevState.debts[1]
    IN  [expenses |-> updatedExpenses,
         debts |-> Some([i \in 1..Len(organizedDebts) |->
                            IF i <= Len(previous)
                            THEN Merge(previous[i], organizedDebts[i])
                            ELSE organizedDebts[i]])]

\* The updater that setExpense hands to setState.
AddExpense(prevState, newExpense) ==
    LET updatedExpenses == Append(prevState.expenses, newExpense)
        splitExpenses   == SplitExpensesByGroups(updatedExpenses, prevState.groups)
        organizedDebts  == OrganizePayments(splitExpenses)
    IN  [expenses |-> updatedExpenses, debts |-> Some(organizedDebts)]

\* `person || !isNaN(Number(amount))`: one valid field is enough.
SetExpenseResult_EitherValid(state, id, person, amountRaw, groupId) ==
    LET amount == ReplaceComma(amountRaw)
    IN  IF person # "" \/ Number(amount) # Null
        THEN [errorMessage |-> "",
              newExpense |-> Some(NewExpense(id, person, amount, groupId))]
        ELSE [errorMessage |-> translations(state.language), newExpense |-> Null]

\* The server action setExpense as a function of the state and the form:
\* the new value of errorMessage and, for an accepted submission, the
\* expense that the updater appends.
SetExpenseResult(state, id, person, amountRaw, groupId) ==
    LET amount == ReplaceComma(amountRaw)
    IN  IF person # "" /\ Number(amount) # Null
        THEN [errorMessage |-> "",
              newExpense |-> Some(NewExpense(id, person, amount, groupId))]
        ELSE [errorMessage |-> translations(state.language), newExpense |-> Null]

\* The form's group field: no group, or an id.
GroupIdInputs == {""} \cup Range(GroupIdList)

\* A submission of the expense form.  `state` is the state the page was
\* rendered from; the page is rendered anew after every request, so it is
\* the state of the cookie.
SetExpense ==
    /\ \E person \in PersonInputs, amountRaw \in AmountInputs,
          groupId \in GroupIdInputs, id \in GeneratedIds :
           LET result == SetExpenseResult(getState, id, person, amountRaw, groupId)
           IN  /\ errorMessage' = result.errorMessage
               /\ IF result.newExpense = Null
                  THEN UNCHANGED cookie
                  ELSE /\ StateSize(getState.expenses, getState.groups) + 2 <= MaxStateSize
                       /\ cookie' = Stored(setState(AddExpense(getState,
                                                               result.newExpense[1])))
    /\ UNCHANGED <<payVars, splitVars, concVars>>

\* --- the other server actions of the page
ToggleLanguage ==
    /\ cookie' = Stored(setState([language |-> IF getState.language = "es" THEN "en" ELSE "es"]))
    /\ UNCHANGED <<errorMessage, payVars, splitVars, concVars>>

ToggleTheme ==
    /\ cookie' = Stored(setState([theme |-> IF getState.theme = "dark" THEN "light" ELSE "dark"]))
    /\ UNCHANGED <<errorMessage, payVars, splitVars, concVars>>

\* resetApplicationState: resetState() deletes the cookie.
ResetApplicationState ==
    /\ errorMessage' = ""
    /\ cookie' = Null
    /\ UNCHANGED <<payVars, splitVars, concVars>>

\* --- settleDebt, unsettleDebt
\* The values of Date.now().
Timestamps == 1..MaxTimestamp

\* `i === debtIndex` without the copy of the other fields.
SettledDebt_FlagsOnly(debt, now) == [settled |-> TRUE, settledAt |-> Some(now)]

\* { ...debt, settled: true, settledAt: Date.now() }
SettledDebt(debt, now) == Merge(debt, [settled |-> TRUE, settledAt |-> Some(now)])

\* { ...debt, settled: false, settledAt: undefined }
UnsettledDebt(debt) == Merge(debt, [settled |-> FALSE, settledAt |-> Null])

\* The updater of settleDebt(debtIndex): prev.debts?.map(...) || null
settleDebt(prev, debtIndex, now) ==
    [debts |->
        IF prev.debts = Null THEN Null
        ELSE Some([i \in 1..Len(prev.debts[1]) |->
                      IF i - 1 = debtIndex
                      THEN SettledDebt(prev.debts[1][i], now)
                      ELSE prev.debts[1][i]])]

\* The updater of unsettleDebt(debtIndex).
unsettleDebt(prev, debtIndex) ==
    [debts |->
        IF prev.debts = Null THEN Null
        ELSE Some([i \in 1..Len(prev.debts[1]) |->
                      IF i - 1 = debtIndex
                      THEN UnsettledDebt(prev.debts[1][i])
                      ELSE prev.debts[1][i]])]

\* The indices a request may carry: those of the stored debts, the one
\* before and the one behind.
DebtIndices == (-1)..(IF getState.debts = Null THEN 0 ELSE Len(getState.debts[1]))

\* The server action toggleDebtSettlement(index, isSettled).
ToggleDebtSettlement ==
    /\ \E index \in DebtIndices, isSettled \in BOOLEAN, now \in Timestamps :
           cookie' = Stored(setState(IF isSettled
                                     THEN unsettleDebt(getState, index)
                                     ELSE settleDebt(getState, index, now)))
    /\ UNCHANGED <<errorMessage, payVars, splitVars, concVars>>

\* --- the groups route
\* The actions a request may name; the last is none of the route's.
RouteActions == {"create", "update", "delete", "rename"}

GroupNames == {"trip"}

\* The participants field of a request: Null for a text that JSON.parse
\* rejects, <<list>> for the JSON text of a list of names.
ParticipantInputs ==
    {Null} \cup
    {Some(list) : list \in UNION {[1..n -> RequestNames] : n \in 0..MaxParticipants}}

\* `create` and `update`: the groups with the new group, and the debts
\* computed on the groups before the request.
SaveGroup_StaleDebts(currentState, action, newGroup) ==
    [groups |-> IF action = "update"
                THEN [i \in 1..Len(currentState.groups) |->
                         IF currentState.groups[i].id = newGroup.id
                         THEN newGroup ELSE currentState.groups[i]]
                ELSE Append(currentState.groups, newGroup),
     debts |-> Some(OrganizePayments(SplitExpensesByGroups(currentState.expenses,
                                                           currentState.groups)))]

\* `create` and `update`: what the route hands to setState.
SaveGroup(currentState, action, newGroup) ==
    LET updatedGroups ==
            IF action = "update"
            THEN [i \in 1..Len(currentState.groups) |->
                     IF currentState.groups[i].id = newGroup.id
                     THEN newGroup ELSE currentState.groups[i]]
            ELSE Append(currentState.groups, newGroup)
        splitExpenses  == SplitExpensesByGroups(currentState.expenses, updatedGroups)
        organizedDebts == OrganizePayments(splitExpenses)
    IN  [groups |-> updatedGroups, debts |-> Some(organizedDebts)]

\* `delete` without the clearing of groupId: the expenses are not handed to
\* setState.
DeleteGroup_KeepsReferences(currentState, id) ==
    LET updatedGroups  == SelectSeq(currentState.groups, LAMBDA g : g.id # id)
        splitExpenses  == SplitExpensesByGroups(currentState.expenses, updatedGroups)
        organizedDebts == OrganizePayments(splitExpenses)
    IN  [groups |-> updatedGroups, debts |-> Some(organizedDebts)]

\* `delete`: what the route hands to setState.
DeleteGroup(currentState, id) ==
    LET updatedGroups   == SelectSeq(currentState.groups, LAMBDA g : g.id # id)
        updatedExpenses ==
            [i \in 1..Len(currentState.expenses) |->
                IF currentState.expenses[i].groupId = id
                THEN [currentState.expenses[i] EXCEPT !.groupId = NoGroupId]
                ELSE currentState.expenses[i]]
        splitExpenses  == SplitExpensesByGroups(updatedExpenses, updatedGroups)
        organizedDebts == OrganizePayments(splitExpenses)
    IN  [groups |-> updatedGroups, expenses |-> updatedExpenses,
         debts |-> Some(organizedDebts)]

\* The route handler POST of /api/groups as a function of the stored state
\* and the form: the status of the response and, for a request that is
\* carried out, what the route hands to setState.  JSON.parse throws on a
\* text that is no JSON; the catch answers 500.
GroupsRoute(currentState, action, id, name, participantsJson) ==
    IF action \in {"create", "update"}
    THEN IF participantsJson = Null
         THEN [status |-> 500, updatedState |-> Null]
         ELSE [status |-> 200,
               updatedState |->
                   Some(SaveGroup(currentState, action,
                                  [id |-> id, name |-> name,
                                   participants |-> participantsJson[1]]))]
    ELSE IF action = "delete"
         THEN [status |-> 200, updatedState |-> Some(DeleteGroup(currentState, id))]
         ELSE [status |-> 400, updatedState |-> Null]

\* A request to the route: create and update carry a participants field.
POST ==
    /\ \E action \in RouteActions, id \in Range(GroupIdList), name \in GroupNames :
       \E participantsJson \in IF action \in {"create", "update"}
                                THEN ParticipantInputs ELSE {Null} :
           LET answer == GroupsRoute(getState, action, id, name, participantsJson)
           IN  IF answer.updatedState = Null
               THEN UNCHANGED cookie
               ELSE /\ StateSize(getState.expenses, answer.updatedState[1].groups)
                           <= MaxStateSize
                    /\ cookie' = Stored(setState(answer.updatedState[1]))
    /\ UNCHANGED <<errorMessage, payVars, splitVars, concVars>>

AppInit ==
    /\ cookie = Null
    /\ errorMessage = ""

\* The requests that read or write the expenses, the groups and the debts.
AppNext ==
    \/ SetExpense
    \/ ResetApplicationState
    \/ ToggleDebtSettlement
    \/ POST

\* Every request of the page and of the route.
PageNext ==
    \/ AppNext
    \/ ToggleLanguage
    \/ ToggleTheme

\* ------------------------------------------------- concurrent invocations
\* The activation record that holds the locals of invocation c of a
\* function, were the locals variables of the module: the two invocations
\* share one record.
Frame_ModuleLevel(fn, c) == <<fn, 1>>

\* The activation record that holds the locals of invocation c of a
\* function.  debtors, creditors, transactions, debtorIndex and
\* creditorIndex, and allPeople, groupMap and balances, are declared with
\* const and let in the body of their function, so every invocation has a
\* record of its own.
Frame(fn, c) == <<fn, c>>

Invocations == 1..MaxInvocations

Functions == {"organizePayments", "splitExpensesByGroups"}

\* The balance lists the invocations of organizePayments are handed: up to
\* three records named by position, each owing two or owed one.
InvokedBalanceAmounts == {-2, 1}

InvokedBalances ==
    UNION {{[i \in 1..n |-> [person |-> NameList[i], amount |-> a[i]]] :
               a \in [1..n -> InvokedBalanceAmounts]} : n \in 0..3}

\* The arguments the invocations of splitExpensesByGroups are handed: up to
\* two expenses of one unit, paid by "A" and by "B", each shared by everyone
\* or by the group; no group, or the group of "B" and "C".
InvokedExpenses ==
    UNION {{[i \in 1..n |-> [person |-> NameList[i], amount |-> Unit, groupId |-> g[i]]] :
               g \in [1..n -> {NoGroupId, GroupIdList[1]}]} : n \in 0..2}

InvokedGroups ==
    {<<>>, <<[id |-> GroupIdList[1], participants |-> <<NameList[2], NameList[3]>>]>>}

InvokedArguments(fn) ==
    IF fn = "organizePayments"
    THEN {[balances |-> bs] : bs \in InvokedBalances}
    ELSE {[expenses |-> es, groups |-> gs] : es \in InvokedExpenses, gs \in InvokedGroups}

\* The locals of splitExpensesByGroups before the expense loop, `next` being
\* the position of the loop in expenses.
SplitEntry(es, gs) ==
    [allPeople |-> AllPeople(es, gs),
     balances |-> InitBalances(AllPeople(es, gs)),
     next |-> 1]

\* One turn of `for (const expense of expenses)`.
SplitBody(st, es, gs) ==
    [st EXCEPT !.balances = ProcessExpense(st.balances, es[st.next], st.allPeople, gs),
               !.next = st.next + 1]

ConcInit ==
    /\ invocations = [c \in Invocations |->
                         [fn |-> "", pc |-> "idle", arguments |-> <<>>, result |-> <<>>]]
    /\ frames = [f \in Functions \X Invocations |->
                    IF f[1] = "organizePayments" THEN LoopEntry(<<>>)
                    ELSE SplitEntry(<<>>, <<>>)]

\* A caller invokes one of the two functions on arguments of its own.
Invoke(c) ==
    /\ invocations[c].pc = "idle"
    /\ \E fn \in Functions :
       \E arguments \in InvokedArguments(fn) :
           invocations' = [invocations EXCEPT
                              ![c] = [fn |-> fn, pc |-> "start",
                                      arguments |-> arguments, result |-> <<>>]]
    /\ UNCHANGED frames

\* helpers.ts:67-83, part_001:74-89: the early returns, or the locals are
\* set up.
InvocationEnter(c) ==
    LET call == invocations[c]
        f    == Frame(call.fn, c)
    IN  /\ call.pc = "start"
        /\ IF call.fn = "organizePayments"
           THEN IF ReturnsEarly(call.arguments.balances)
                THEN /\ invocations' = [invocations EXCEPT ![c].pc = "done",
                                                            ![c].result = <<>>]
                     /\ UNCHANGED frames
                ELSE /\ frames' = [frames EXCEPT ![f] = LoopEntry(call.arguments.balances)]
                     /\ invocations' = [invocations EXCEPT ![c].pc = "loop"]
           ELSE IF Len(call.arguments.expenses) = 0
                THEN /\ invocations' = [invocations EXCEPT ![c].pc = "done",
                                                            ![c].result = <<>>]
                     /\ UNCHANGED frames
                ELSE /\ frames' = [frames EXCEPT
                                      ![f] = SplitEntry(call.arguments.expenses,
                                                        call.arguments.groups)]
                     /\ invocations' = [invocations EXCEPT ![c].pc = "loop"]

\* The loop of invocation c goes on: its condition on the locals.
InvocationLoopCond(c) ==
    LET call == invocations[c]
        st   == frames[Frame(call.fn, c)]
    IN  IF call.fn = "organizePayments"
        THEN LoopCond(st)
        ELSE st.next <= Len(call.arguments.expenses)

\* One iteration of the loop of invocation c, on its locals.
InvocationIterate(c) ==
    LET call == invocations[c]
        f    == Frame(call.fn, c)
    IN  /\ call.pc = "loop"
        /\ InvocationLoopCond(c)
        /\ frames' = [frames EXCEPT
                         ![f] = IF call.fn = "organizePayments"
                                THEN LoopBody(frames[f])
                                ELSE SplitBody(frames[f], call.arguments.expenses,
                                               call.arguments.groups)]
        /\ UNCHANGED invocations

\* The loop of invocation c is over: transactions, or the entries of
\* balances, are returned.
InvocationReturn(c) ==
    LET call == invocations[c]
        st   == frames[Frame(call.fn, c)]
    IN  /\ call.pc = "loop"
        /\ ~InvocationLoopCond(c)
        /\ invocations' = [invocations EXCEPT
                              ![c].pc = "done",
                              ![c].result = IF call.fn = "organizePayments"
                                            THEN st.transactions
                                            ELSE st.balances]
        /\ UNCHANGED frames

InvokeAny == \E c \in Invocations : Invoke(c) /\ UNCHANGED <<payVars, splitVars, appVars>>

EnterAny == \E c \in Invocations : InvocationEnter(c) /\ UNCHANGED <<payVars, splitVars, appVars>>

IterateAny == \E c \in Invocations : InvocationIterate(c) /\ UNCHANGED <<payVars, splitVars, appVars>>

ReturnAny == \E c \in Invocations : InvocationReturn(c) /\ UNCHANGED <<payVars, splitVars, appVars>>

\* Any step of any invocation: the steps of the invocations interleave
\* freely.
ConcNext == InvokeAny \/ EnterAny \/ IterateAny \/ ReturnAny

Init == PayInit /\ SplitInit /\ AppInit /\ ConcInit

\* Calls of organizePayments on every argument within the bounds.
SpecPay == Init /\ [][PayNext]_vars

\* Calls of splitExpensesByGroups on every pair of arguments within the bounds.
SpecSplit == Init /\ [][SplitNext]_vars

\* One call of either function.
CoreNext == PayNext \/ SplitNext

SpecCore == Init /\ [][CoreNext]_vars

\* The requests of one browser that read or write the expenses, the groups
\* and the debts, one after the other.
SpecApp == Init /\ [][AppNext]_vars

\* The same with the requests that set the language and the theme.
SpecPage == Init /\ [][PageNext]_vars

\* --- a browser that still holds the cookie of the first version
\* The expense lists of the first version: a person and an amount, no id
\* and no group.
LegacyExpenses ==
    UNION {[1..n -> [person : {NameList[1], NameList[2]},
                     amount : ExpenseAmounts,
                     groupId : {NoGroupId}]] : n \in 0..MaxLegacyExpenses}

\* What setState of the first version stored: the four fields of its state,
\* without version and groups; the debts are those of the equal split.
LegacyStates ==
    {[expenses |-> es,
      debts |-> IF es = <<>> THEN Null
                ELSE Some(OrganizePayments(SplitExpensesEqually(es))),
      language |-> language,
      theme |-> "dark"] : es \in LegacyExpenses, language \in Languages}

MigrateInit ==
    /\ PayInit
    /\ SplitInit
    /\ ConcInit
    /\ errorMessage = ""
    /\ cookie \in {Some(state) : state \in LegacyStates}

\* The requests of the application on a cookie of the first version.
SpecMigrate == MigrateInit /\ [][AppNext]_vars

\* Concurrent invocations of the two core functions.
SpecConc == Init /\ [][ConcNext]_vars

\* ================================================================ claims

\* --- helpers of the statements
\* The names of a balance list are pairwise distinct.
DistinctNames(bs) == \A i, j \in 1..Len(bs) : bs[i].person = bs[j].person => i = j

\* What p pays in total under a list of payments, and what p receives.
Paid(ps, p) == SumAmounts(SelectSeq(ps, LAMBDA t : t.person = p))
Received(ps, p) == SumAmounts(SelectSeq(ps, LAMBDA t : t.creditor = p))

\* The number of negative and of positive entries of a balance list.
CountNegative(bs) == Cardinality({i \in 1..Len(bs) : bs[i].amount < 0})
CountPositive(bs) == Cardinality({i \in 1..Len(bs) : bs[i].amount > 0})

\* The expense resolves to a group of the list.
Resolves(e, gs) == e.groupId # NoGroupId /\ GroupMapHas(gs, e.groupId)

\* No expense is scoped to a group with an empty participant list.
NoEmptySharing(es, gs) ==
    \A i \in 1..Len(es) :
        Resolves(es[i], gs) => Len(GroupMapGet(gs, es[i].groupId).participants) > 0

\* C1. Zero-sum: when no expense is scoped to a group with an empty
\* participant list, the balances returned by splitExpensesByGroups sum to
\* zero.
C1_ZeroSum ==
    (splitPc = "done" /\ NoEmptySharing(expenses, groups))
        => SumAmounts(splitResult) = 0

\* A call with two expenses, one scoped to a group of two and one shared by
\* everyone, that leaves somebody owing.
C1_Witness ==
    /\ splitPc = "done"
    /\ Len(expenses) = 2
    /\ NoEmptySharing(expenses, groups)
    /\ \E i \in 1..2 : Resolves(expenses[i], groups) /\ expenses[i].amount > 0
                       /\ Len(GroupMapGet(groups, expenses[i].groupId).participants) = 2
    /\ \E i \in 1..2 : ~Resolves(expenses[i], groups) /\ expenses[i].amount > 0
    /\ \E i \in 1..Len(splitResult) : splitResult[i].amount < 0

\* C2. Settlement conservation: for a balance list that sums to zero, the
\* payments returned by organizePayments sum to the sum of the positive
\* balances, which is the absolute sum of the negative ones.
C2_Conservation ==
    (payPc = "done" /\ SumAmounts(balances) = 0)
        => /\ SumAmounts(payResult) = SumAmounts(SelectSeq(balances, LAMBDA b : b.amount > 0))
           /\ SumAmounts(payResult) = -SumAmounts(SelectSeq(balances, LAMBDA b : b.amount < 0))

\* A zero-sum list settled by two payments or more.
C2_Witness ==
    /\ payPc = "done"
    /\ SumAmounts(balances) = 0
    /\ Len(payResult) >= 2

\* C3. The plan settles everybody: for a zero-sum balance list with distinct
\* names, each participant's balance plus what they pay minus what they
\* receive is zero.
C3_SettlesEveryone ==
    (payPc = "done" /\ SumAmounts(balances) = 0 /\ DistinctNames(balances))
        => \A i \in 1..Len(balances) :
               balances[i].amount + Paid(payResult, balances[i].person)
                   - Received(payResult, balances[i].person) = 0

\* A zero-sum list of distinct names in which one debtor pays two creditors.
C3_Witness ==
    /\ payPc = "done"
    /\ SumAmounts(balances) = 0
    /\ DistinctNames(balances)
    /\ \E i, j \in 1..Len(payResult) :
           /\ i # j
           /\ payResult[i].person = payResult[j].person
           /\ payResult[i].creditor # payResult[j].creditor

\* C4, as claimed. No self-payment, for any balance list: no returned
\* payment has person equal to creditor.
C4_NoSelfPaymentAnyList ==
    payPc = "done" => \A i \in 1..Len(payResult) : payResult[i].person # payResult[i].creditor

\* C4, amended. No self-payment, for a balance list with distinct names.
C4_NoSelfPayment ==
    (payPc = "done" /\ DistinctNames(balances))
        => \A i \in 1..Len(payResult) : payResult[i].person # payResult[i].creditor

\* A list of distinct names that needs payments.
C4_Witness ==
    /\ payPc = "done"
    /\ DistinctNames(balances)
    /\ Len(balances) >= 3
    /\ Len(payResult) >= 2

\* C5. Transaction bound: a non-empty plan has at most
\* (negative balances) + (positive balances) - 1 payments.
C5_TransactionBound ==
    (payPc = "done" /\ payResult # <<>>)
        => Len(payResult) <= CountNegative(balances) + CountPositive(balances) - 1

\* A plan of two payments that meets the bound.
C5_Witness ==
    /\ payPc = "done"
    /\ Len(payResult) = 2
    /\ CountNegative(balances) + CountPositive(balances) = 3


\* The cursors of the planner, and the lists they run over.
CursorSum == debtorIndex + creditorIndex

\* C6. organizePayments terminates: each iteration of the loop advances the
\* debtor cursor or the creditor cursor (or both) and no cursor passes the
\* end of its list, so the loop ends after at most as many iterations as
\* there are debtors and creditors.
C6_Terminates ==
    [][PayIterate =>
          /\ debtorIndex' >= debtorIndex
          /\ creditorIndex' >= creditorIndex
          /\ debtorIndex' + creditorIndex' > CursorSum
          /\ debtorIndex' <= Len(debtors')
          /\ creditorIndex' <= Len(creditors')]_vars

\* A call that returned after two iterations, the last of which moved both
\* cursors to the ends of their lists.
C6_Witness ==
    /\ payPc = "done"
    /\ Len(payResult) = 2
    /\ debtorIndex = Len(debtors)
    /\ creditorIndex = Len(creditors)


\* C7. Empty and degenerate inputs give empty results:
\* splitExpensesByGroups returns the empty list for an empty expense list,
\* whatever the groups; organizePayments returns the empty list for an empty
\* balance list, an all-zero one, and one without a negative or without a
\* positive balance.
C7_DegenerateEmpty ==
    /\ (splitPc = "done" /\ expenses = <<>>) => splitResult = <<>>
    /\ (payPc = "done" /\ (CountNegative(balances) = 0 \/ CountPositive(balances) = 0))
           => payResult = <<>>

\* A returned call on no expenses and a group with participants, or on
\* balances that are all zero, or on balances with creditors but no debtor.
C7_Witness ==
    \/ /\ splitPc = "done"
       /\ expenses = <<>>
       /\ Len(AllParticipants(groups)) >= 2
    \/ /\ payPc = "done"
       /\ Len(balances) >= 2
       /\ \A i \in 1..Len(balances) : balances[i].amount = 0
    \/ /\ payPc = "done"
       /\ CountNegative(balances) = 0
       /\ CountPositive(balances) >= 2

\* The universal participant set: every payer and every group participant.
UniversalSet(es, gs) == Range(Persons(es)) \cup Range(AllParticipants(gs))

\* The list holds exactly one entry for each name of the set.
OnePerName(bs, names) ==
    /\ DistinctNames(bs)
    /\ {bs[i].person : i \in 1..Len(bs)} = names

\* C8, as claimed. splitExpensesByGroups emits exactly one balance for each
\* name of the universal participant set and for no other name.
C8_OnePerParticipantAlways ==
    splitPc = "done" => OnePerName(splitResult, UniversalSet(expenses, groups))

\* C8, amended. For a non-empty expense list, splitExpensesByGroups emits
\* exactly one balance for each name of the universal participant set and
\* for no other name.
C8_OnePerParticipant ==
    (splitPc = "done" /\ expenses # <<>>)
        => OnePerName(splitResult, UniversalSet(expenses, groups))

\* A participant who is listed in a group only, and more than once, beside
\* a payer who is listed in no group.
C8_Witness ==
    /\ splitPc = "done"
    /\ expenses # <<>>
    /\ \E p \in Range(AllParticipants(groups)) :
           /\ p \notin Range(Persons(expenses))
           /\ Cardinality({i \in 1..Len(AllParticipants(groups)) :
                              AllParticipants(groups)[i] = p}) >= 2
    /\ \E p \in Range(Persons(expenses)) : p \notin Range(AllParticipants(groups))

\* The expense with its groupId removed when the id resolves to no group.
ClearUnresolved(es, gs) ==
    [i \in 1..Len(es) |->
        IF Resolves(es[i], gs) THEN es[i] ELSE [es[i] EXCEPT !.groupId = NoGroupId]]

\* The share of everyone in the expenses that are not scoped to a group of
\* the list: the sum of amount / (size of the universal set).
RECURSIVE UnscopedShares(_, _, _)
UnscopedShares(es, gs, n) ==
    IF es = <<>> THEN 0
    ELSE (IF Resolves(es[1], gs) THEN 0 ELSE es[1].amount \div n)
             + UnscopedShares(Tail(es), gs, n)

\* C9. Unresolvable group ids fall back to sharing by everyone: the
\* balances are those of the same expenses with the unresolvable ids
\* removed, and when no expense resolves to a group everyone's balance is
\* what they paid minus an equal share of every expense.
C9_UnresolvedFallback ==
    splitPc = "done" =>
        /\ splitResult = SplitExpensesByGroups(ClearUnresolved(expenses, groups), groups)
        /\ (\A i \in 1..Len(expenses) : ~Resolves(expenses[i], groups)) =>
               \A i \in 1..Len(splitResult) :
                   splitResult[i].amount =
                       SumAmounts(SelectSeq(expenses,
                                            LAMBDA e : e.person = splitResult[i].person))
                       - UnscopedShares(expenses, groups,
                                        Cardinality(UniversalSet(expenses, groups)))

\* An expense with an id that no group carries, while a group of two
\* participants who paid nothing exists.
C9_Witness ==
    /\ splitPc = "done"
    /\ Len(groups) = 1
    /\ Len(groups[1].participants) = 2
    /\ Cardinality(UniversalSet(expenses, groups)) = 3
    /\ \E i \in 1..Len(expenses) :
           /\ expenses[i].groupId # NoGroupId
           /\ ~Resolves(expenses[i], groups)
           /\ expenses[i].amount > 0

\* C10. Every payment returned by organizePayments has a strictly positive
\* amount, for any balance list; so has every payment recorded in the loop.
C10_PositivePayments ==
    /\ \A i \in 1..Len(transactions) : transactions[i].amount > 0
    /\ \A i \in 1..Len(payResult) : payResult[i].amount > 0

\* A returned plan in which a debtor is settled in two parts.
C10_Witness ==
    /\ payPc = "done"
    /\ Len(payResult) = 2
    /\ payResult[1].person = payResult[2].person
    /\ payResult[1].amount > payResult[2].amount

\* C11. organizePayments leaves its argument alone: no step of a call, from
\* its entry to its return, changes the balance list or the person or the
\* amount of a record in it, although the loop decrements the amounts of its
\* working records.
C11_ArgumentUnchanged ==
    [][(PayEnter \/ PayIterate \/ PayReturn) => balances' = balances]_vars

\* A returned call whose loop brought a working debtor and two working
\* creditors down to zero, the argument still holding their balances.
C11_Witness ==
    /\ payPc = "done"
    /\ Len(creditors) = 2
    /\ \A k \in 1..Len(creditors) : creditors[k].amount = 0
    /\ \A k \in 1..Len(debtors) : debtors[k].amount = 0
    /\ CountPositive(balances) = 2

\* A stored debt list without the settlement fields.
PlanOf(debts) ==
    [k \in 1..Len(debts) |->
        [person |-> debts[k].person, amount |-> debts[k].amount,
         creditor |-> debts[k].creditor]]

ReturnsAlone(call) ==
    IF call.fn = "organizePayments"
    THEN OrganizePayments(call.arguments.balances)
    ELSE SplitExpensesByGroups(call.arguments.expenses, call.arguments.groups)

\* C13: the core functions can be invoked concurrently without
\* coordination.  However the steps of the invocations of organizePayments
\* and splitExpensesByGroups interleave, an invocation that has returned has
\* returned what the function returns on its arguments when it runs alone.
C13_InterleavingFree ==
    \A c \in Invocations :
        invocations[c].pc = "done" => invocations[c].result = ReturnsAlone(invocations[c])

\* Two invocations of organizePayments on different arguments, both inside
\* the loop, each with a payment made and a payment to make.
C13_Witness ==
    /\ \A c \in {1, 2} :
           /\ invocations[c].fn = "organizePayments"
           /\ invocations[c].pc = "loop"
           /\ Len(frames[Frame("organizePayments", c)].transactions) = 1
           /\ InvocationLoopCond(c)
    /\ invocations[1].arguments # invocations[2].arguments

\* The list of names that shares expense e: the participants of the group
\* that its groupId resolves to, or else the universal participant set.
SharingList(e, es, gs) ==
    IF Resolves(e, gs) THEN GroupMapGet(gs, e.groupId).participants ELSE AllPeople(es, gs)

\* The number of times p occurs in a list of names.
Occurrences(list, p) == Cardinality({i \in 1..Len(list) : list[i] = p})

\* The sum of the amounts of the expenses paid by p.
PaidBy(es, p) == SumAmounts(SelectSeq(es, LAMBDA e : e.person = p))

\* amount / length of the sharing list, times the occurrences of p in it, as
\* a number or, with an empty sharing list, as no number: amount / 0 is
\* Infinity or NaN, and either of them times 0 is NaN.
ReferenceShare(e, es, gs, p) ==
    LET list == SharingList(e, es, gs)
    IN  IF Len(list) = 0 THEN Null
        ELSE Some((e.amount \div Len(list)) * Occurrences(list, p))

RECURSIVE ReferenceShares(_, _, _, _)
\* The sum of the reference shares of p over the expenses es[1..n], in input
\* order; no number as soon as one of them is no number.
ReferenceShares(n, es, gs, p) ==
    IF n = 0 THEN Some(0)
    ELSE LET before == ReferenceShares(n - 1, es, gs, p)
             share  == ReferenceShare(es[n], es, gs, p)
         IN  IF before = Null \/ share = Null THEN Null
             ELSE Some(before[1] + share[1])

\* The reference balance of p.
ReferenceBalance(es, gs, p) ==
    LET shares == ReferenceShares(Len(es), es, gs, p)
    IN  IF shares = Null THEN Null ELSE Some(PaidBy(es, p) - shares[1])

\* C14 as stated: for non-empty expenses every returned balance equals the
\* reference formula, paid minus the sum over all expenses of amount /
\* length of the sharing list times the occurrences in the sharing list.
C14_ReferenceFormulaAnyGroups ==
    (splitPc = "done" /\ expenses # <<>>) =>
        \A k \in 1..Len(splitResult) :
            Some(splitResult[k].amount)
                = ReferenceBalance(expenses, groups, splitResult[k].person)

\* C14, amended: for non-empty expenses none of which is scoped to a group
\* without participants, every returned balance equals the reference
\* formula.
C14_ReferenceFormula ==
    (splitPc = "done" /\ expenses # <<>> /\ NoEmptySharing(expenses, groups)) =>
        \A k \in 1..Len(splitResult) :
            Some(splitResult[k].amount)
                = ReferenceBalance(expenses, groups, splitResult[k].person)

\* A returned call on an expense shared by everyone and an expense shared by
\* a group that lists one of its participants twice.
C14_Witness ==
    /\ splitPc = "done"
    /\ NoEmptySharing(expenses, groups)
    /\ \E i, j \in 1..Len(expenses) :
           /\ expenses[i].amount > 0
           /\ expenses[j].amount > 0
           /\ ~Resolves(expenses[i], groups)
           /\ Resolves(expenses[j], groups)
           /\ \E p \in Range(SharingList(expenses[j], expenses, groups)) :
                  Occurrences(SharingList(expenses[j], expenses, groups), p) = 2

\* The expenses before the last one was added.
EarlierExpenses == SubSeq(expenses, 1, Len(expenses) - 1)

\* The balances of everyone other than the payer of the last expense and the
\* participants of its group are what they were before the expense was
\* added; someone without a balance entry counts as having balance 0.
OthersUntouched ==
    LET added  == expenses[Len(expenses)]
        before == SplitExpensesByGroups(EarlierExpenses, groups)
    IN  \A k \in 1..Len(splitResult) :
            LET p == splitResult[k].person
            IN  (p # added.person /\ p \notin Range(SharingList(added, expenses, groups)))
                    => splitResult[k].amount = MapGetOr0(before, p)

\* An earlier expense is shared by the universal participant set.
SharedByEveryoneEarlier ==
    \E i \in 1..Len(EarlierExpenses) : ~Resolves(EarlierExpenses[i], groups)

\* C15 as stated: adding an expense whose groupId resolves to a group
\* changes the balance of no participant other than the payer and the
\* participants of that group.
C15_GroupScopedFrameAnyPayer ==
    (splitPc = "done" /\ expenses # <<>> /\ Resolves(expenses[Len(expenses)], groups))
        => OthersUntouched

\* C15, amended: adding an expense whose groupId resolves to a group changes
\* the balance of no participant other than the payer and the participants
\* of that group, when the payer already is in the universal participant set
\* or no other expense is shared by the universal set.
C15_GroupScopedFrame ==
    (/\ splitPc = "done"
     /\ expenses # <<>>
     /\ Resolves(expenses[Len(expenses)], groups)
     /\ \/ expenses[Len(expenses)].person \in Range(AllPeople(EarlierExpenses, groups))
        \/ ~SharedByEveryoneEarlier)
        => OthersUntouched

\* A returned call whose last expense is scoped to a group with a
\* participant and paid by someone of the universal set, added to an expense
\* shared by everyone that left a balance with someone who is neither the
\* payer nor in the group.
C15_Witness ==
    /\ splitPc = "done"
    /\ Len(expenses) >= 2
    /\ Resolves(expenses[Len(expenses)], groups)
    /\ expenses[Len(expenses)].amount > 0
    /\ SharingList(expenses[Len(expenses)], expenses, groups) # <<>>
    /\ expenses[Len(expenses)].person \in Range(AllPeople(EarlierExpenses, groups))
    /\ SharedByEveryoneEarlier
    /\ \E k \in 1..Len(splitResult) :
           /\ splitResult[k].amount # 0
           /\ splitResult[k].person # expenses[Len(expenses)].person
           /\ splitResult[k].person
                  \notin Range(SharingList(expenses[Len(expenses)], expenses, groups))

\* The balance of p in a balance list of distinct names.
BalanceOf(bs, p) == bs[CHOOSE i \in 1..Len(bs) : bs[i].person = p].amount

\* C16: zero-balance participants are dropped.  For a balance list of
\* distinct names, the person of every returned payment has a negative
\* balance in the argument and its creditor a positive one, so nobody whose
\* balance is zero is the person or the creditor of a payment.
C16_ZeroBalanceDropped ==
    (payPc = "done" /\ DistinctNames(balances)) =>
        \A k \in 1..Len(payResult) :
            /\ BalanceOf(balances, payResult[k].person) < 0
            /\ BalanceOf(balances, payResult[k].creditor) > 0

\* A returned call with a payment on a list of distinct names one of which
\* has balance zero.
C16_Witness ==
    /\ payPc = "done"
    /\ DistinctNames(balances)
    /\ payResult # <<>>
    /\ \E i \in 1..Len(balances) : balances[i].amount = 0

\* What the records of p owe together, and what they are owed together; for
\* distinct names, the owed amount and the credit of p's one record.
Owed(bs, p) == SumAmounts(SelectSeq(bs, LAMBDA b : b.person = p /\ b.amount < 0)) * (-1)
Credit(bs, p) == SumAmounts(SelectSeq(bs, LAMBDA b : b.person = p /\ b.amount > 0))

\* The first payment is from a debtor with the largest owed amount to a
\* creditor with the largest credit, for the minimum of the two; through the
\* output the owed amounts of the debtors and the credits of the creditors
\* never increase; the payments of one debtor are contiguous.
LargestFirst(bs, ps) ==
    /\ ps # <<>> =>
           /\ \A i \in 1..Len(bs) : Owed(bs, bs[i].person) <= Owed(bs, ps[1].person)
           /\ \A i \in 1..Len(bs) : Credit(bs, bs[i].person) <= Credit(bs, ps[1].creditor)
           /\ ps[1].amount = Min(Owed(bs, ps[1].person), Credit(bs, ps[1].creditor))
    /\ \A k \in 1..(Len(ps) - 1) :
           /\ Owed(bs, ps[k].person) >= Owed(bs, ps[k + 1].person)
           /\ Credit(bs, ps[k].creditor) >= Credit(bs, ps[k + 1].creditor)
    /\ \A i, j, k \in 1..Len(ps) :
           (i < j /\ j < k /\ ps[i].person = ps[k].person) => ps[j].person = ps[i].person

LastSharedByNobody ==
    /\ expenses # <<>>
    /\ Resolves(expenses[Len(expenses)], groups)
    /\ GroupMapGet(groups, expenses[Len(expenses)].groupId).participants = <<>>

\* The balances when the loop reaches the last expense.
BalancesBeforeLast ==
    ProcessExpenses(InitBalances(AllPeople(expenses, groups)), EarlierExpenses,
                    AllPeople(expenses, groups), groups)

\* C18: empty group policy.  An expense whose groupId resolves to a group
\* with zero participants is processed without an error: it raises the
\* balance of its payer by its amount and leaves every other balance as the
\* loop found it, and the balances of the call sum to its amount more than
\* those of the call without the expense.
C18_EmptyGroupPolicy ==
    (splitPc = "done" /\ LastSharedByNobody) =>
        LET added == expenses[Len(expenses)]
        IN  /\ Len(splitResult) = Len(BalancesBeforeLast)
            /\ \A k \in 1..Len(splitResult) :
                   /\ splitResult[k].person = BalancesBeforeLast[k].person
                   /\ splitResult[k].amount =
                          BalancesBeforeLast[k].amount
                              + (IF splitResult[k].person = added.person
                                 THEN added.amount ELSE 0)
            /\ SumAmounts(splitResult) =
                   SumAmounts(SplitExpensesByGroups(EarlierExpenses, groups)) + added.amount

\* A returned call whose last expense, of one unit, is scoped to a group
\* without participants, after an expense that two people share.
C18_Witness ==
    /\ splitPc = "done"
    /\ LastSharedByNobody
    /\ expenses[Len(expenses)].amount > 0
    /\ Len(expenses) >= 2
    /\ \E k \in 1..Len(splitResult) : splitResult[k].amount < 0
    /\ SumAmounts(splitResult) = expenses[Len(expenses)].amount

\* C19: duplicate names in a group's participant list are not deduplicated.
\* An expense scoped to a group whose list has length n lowers the balance
\* of a participant listed k times by k * (amount / n) (and raises the
\* balance of its payer by its amount), while every name is once in the
\* universal participant set and once in the output.
C19_DuplicatesDebitedTwice ==
    (/\ splitPc = "done"
     /\ expenses # <<>>
     /\ Resolves(expenses[Len(expenses)], groups)
     /\ SharingList(expenses[Len(expenses)], expenses, groups) # <<>>) =>
        LET added == expenses[Len(expenses)]
            list  == SharingList(added, expenses, groups)
        IN  /\ DistinctNames(splitResult)
            /\ \A p \in Range(list) : Occurrences(AllPeople(expenses, groups), p) = 1
            /\ Len(splitResult) = Len(BalancesBeforeLast)
            /\ \A i \in 1..Len(splitResult) :
                   /\ splitResult[i].person = BalancesBeforeLast[i].person
                   /\ splitResult[i].amount =
                          BalancesBeforeLast[i].amount
                              + (IF splitResult[i].person = added.person
                                 THEN added.amount ELSE 0)
                              - Occurrences(list, splitResult[i].person)
                                    * (added.amount \div Len(list))

\* A returned call whose last expense, of one unit, is scoped to a group
\* that lists one name twice and another name once.
C19_Witness ==
    /\ splitPc = "done"
    /\ expenses # <<>>
    /\ Resolves(expenses[Len(expenses)], groups)
    /\ expenses[Len(expenses)].amount > 0
    /\ LET list == SharingList(expenses[Len(expenses)], expenses, groups)
       IN  /\ Len(list) = 3
           /\ \E p, q \in Range(list) :
                  Occurrences(list, p) = 2 /\ Occurrences(list, q) = 1

\* A debt without its settlement fields.
Unsettled(debt) == Without(Without(debt, "settled"), "settledAt")

\* The state that the next request reads after toggleDebtSettlement(index,
\* isSettled) at time now.
AfterSettlement(index, isSettled, now) ==
    migrateState(Stored(setState(IF isSettled
                                 THEN unsettleDebt(getState, index)
                                 ELSE settleDebt(getState, index, now)))[1])

\* `after` differs from `before` at most in the settled and settledAt fields
\* of the debt at index; null debts are still null.
OnlySettlementOf(before, after, index) ==
    /\ Without(after, "debts") = Without(before, "debts")
    /\ IF before.debts = Null
       THEN after.debts = Null
       ELSE /\ after.debts # Null
            /\ Len(after.debts[1]) = Len(before.debts[1])
            /\ \A k \in 1..Len(before.debts[1]) :
                   /\ Unsettled(after.debts[1][k]) = Unsettled(before.debts[1][k])
                   /\ k - 1 # index => after.debts[1][k] = before.debts[1][k]

AfterRequest(updatedState) == migrateState(Stored(setState(updatedState))[1])

\* The ids of the stored groups.
StoredGroupIds(state) == {state.groups[g].id : g \in 1..Len(state.groups)}

\* Every groupId of a stored expense is the id of a stored group.
Resolvable(state) ==
    \A i \in 1..Len(state.expenses) :
        state.expenses[i].groupId # NoGroupId
            => state.expenses[i].groupId \in StoredGroupIds(state)

\* The submissions that setExpense accepts.
AcceptedPersons == {person \in PersonInputs : person # ""}
AcceptedAmounts == {amountRaw \in AmountInputs : Number(ReplaceComma(amountRaw)) # Null}

\* Deleting group id removes the groups with that id and clears the groupId
\* of exactly the expenses that carried it.
DeleteClearsReferences(before, after, id) ==
    /\ after.groups = SelectSeq(before.groups, LAMBDA g : g.id # id)
    /\ Len(after.expenses) = Len(before.expenses)
    /\ \A i \in 1..Len(before.expenses) :
           IF before.expenses[i].groupId = id
           THEN after.expenses[i] = [before.expenses[i] EXCEPT !.groupId = NoGroupId]
           ELSE after.expenses[i] = before.expenses[i]

\* C21: group references stay resolvable.  From a state in which every
\* groupId of an expense is the id of a stored group, adding an expense
\* without groupId or with the id of a stored group, and every create,
\* update and delete of the groups route, lead to such a state again (the
\* first state, without expenses, is one); and deleting group g removes g
\* and clears groupId on exactly the expenses that referenced g, leaving
\* everything else of every expense as it was.
C21_ReferencesResolvable ==
    /\ Resolvable(getState) =>
           /\ \A person \in AcceptedPersons, amountRaw \in AcceptedAmounts,
                 groupId \in {""} \cup StoredGroupIds(getState), id \in GeneratedIds :
                  Resolvable(AfterRequest(AddExpense(getState,
                                 NewExpense(id, person, ReplaceComma(amountRaw), groupId))))
           /\ \A action \in RouteActions, id \in Range(GroupIdList), name \in GroupNames,
                 participantsJson \in ParticipantInputs :
                  LET answer == GroupsRoute(getState, action, id, name, participantsJson)
                  IN  answer.updatedState # Null
                          => Resolvable(AfterRequest(answer.updatedState[1]))
    /\ \A id \in Range(GroupIdList) :
           DeleteClearsReferences(getState, AfterRequest(DeleteGroup(getState, id)), id)

\* A stored state with two groups and an expense that refers to one of them.
C21_Witness ==
    LET state == getState
    IN  /\ Len(state.groups) = 2
        /\ state.groups[1].id # state.groups[2].id
        /\ Len(state.expenses) = 1
        /\ state.expenses[1].groupId \in StoredGroupIds(state)

\* C22: amounts are sanitized before the core is invoked.  Every expense
\* that setExpense has stored has a non-negative amount (the amounts of the
\* model are all finite): a submission with a negative amount is rejected.
C22_AmountsSanitized ==
    \A i \in 1..Len(getState.expenses) : getState.expenses[i].amount >= 0

\* The names of a list, each at the place of its first appearance.
FirstAppearances(names) ==
    LET first == SelectSeq([i \in 1..Len(names) |-> i],
                           LAMBDA i : \A j \in 1..(i - 1) : names[j] # names[i])
    IN  [k \in 1..Len(first) |-> names[first[k]]]

\* The persons of a balance list, in list order.
PersonsOf(bs) == [k \in 1..Len(bs) |-> bs[k].person]

\* C23: the order of the output is fixed by first insertion.  For non-empty
\* expenses the balances come in the order in which the names first appear
\* in the list of the payers, in expense order, followed by the
\* participants of the groups, in group order; the result is a function of
\* the arguments, so equal arguments give equal lists.  (For empty expenses
\* the result is the empty list.)
C23_FirstInsertionOrder ==
    splitPc = "done" =>
        /\ splitResult = SplitExpensesByGroups(expenses, groups)
        /\ PersonsOf(splitResult) =
               IF expenses = <<>> THEN <<>>
               ELSE FirstAppearances(Persons(expenses) \o AllParticipants(groups))

\* A returned call on two payers and a group that lists the second payer
\* and then a new name.
C23_Witness ==
    /\ splitPc = "done"
    /\ Len(expenses) = 2
    /\ expenses[1].person # expenses[2].person
    /\ Len(groups) >= 1
    /\ Len(groups[1].participants) = 2
    /\ groups[1].participants[1] = expenses[2].person
    /\ groups[1].participants[2] \notin {expenses[1].person, expenses[2].person}
    /\ Len(splitResult) = 3

\* No group is given and no expense names one.
NoGroupsAtAll ==
    /\ groups = <<>>
    /\ \A i \in 1..Len(expenses) : expenses[i].groupId = NoGroupId

\* The payers of the expenses, each once, in the order of their first expense.
DistinctPayers == FirstAppearances([i \in 1..Len(expenses) |-> expenses[i].person])

\* C24: with no groups and no expense carrying a groupId,
\* splitExpensesByGroups(expenses, []) returns what splitExpensesEqually(expenses)
\* returns: the payers in the order of their first expense, each with the
\* total they paid minus the total of all expenses divided by the number of
\* distinct payers.
C24_AgreesWithEqualSplit ==
    (NoGroupsAtAll /\ equalResult # Null)
        => /\ splitResult = equalResult[1]
           /\ PersonsOf(equalResult[1]) = DistinctPayers
           /\ \A k \in 1..Len(equalResult[1]) :
                  Len(DistinctPayers) * equalResult[1][k].amount
                      = Len(DistinctPayers) * PaidBy(expenses, equalResult[1][k].person)
                            - SumAmounts(expenses)

\* Two payers, one of them with two expenses, and no group.
C24_Witness ==
    /\ NoGroupsAtAll
    /\ equalResult # Null
    /\ Len(expenses) = 3
    /\ Len(equalResult[1]) = 2
    /\ \E k \in 1..2 : equalResult[1][k].amount < 0

\* The sum of the debts and the sum of the credits of a balance list.
TotalOwed(bs) == SumAmounts(SelectSeq(bs, LAMBDA b : b.amount < 0)) * (-1)
TotalCredit(bs) == SumAmounts(SelectSeq(bs, LAMBDA b : b.amount > 0))

\* C25: for a balance list with distinct names that does not sum to zero, no
\* debtor pays in total more than they owe, no creditor receives in total
\* more than their credit, and the payments add up to the smaller of the
\* total owed and the total credit.
C25_NeverOverSettles ==
    (payPc = "done" /\ DistinctNames(balances) /\ SumAmounts(balances) # 0)
        => /\ \A i \in 1..Len(balances) :
                  /\ Paid(payResult, balances[i].person)
                         <= Owed(balances, balances[i].person)
                  /\ Received(payResult, balances[i].person)
                         <= Credit(balances, balances[i].person)
           /\ SumAmounts(payResult) = Min(TotalOwed(balances), TotalCredit(balances))

\* A debtor who owes more than all the credit and stays partly unsettled.
C25_Witness ==
    /\ payPc = "done"
    /\ DistinctNames(balances)
    /\ TotalOwed(balances) > TotalCredit(balances)
    /\ Len(payResult) = 2
    /\ \E i \in 1..Len(balances) :
           /\ Paid(payResult, balances[i].person) > 0
           /\ Paid(payResult, balances[i].person) < Owed(balances, balances[i].person)

\* C26: for a balance list with distinct names, no two returned payments
\* have both the same person and the same creditor.
C26_OnePaymentPerPair ==
    (payPc = "done" /\ DistinctNames(balances))
        => \A i, j \in 1..Len(payResult) :
               (payResult[i].person = payResult[j].person
                    /\ payResult[i].creditor = payResult[j].creditor) => i = j

\* One debtor pays two creditors: two payments, two pairs.
C26_Witness ==
    /\ payPc = "done"
    /\ DistinctNames(balances)
    /\ Len(payResult) = 2
    /\ payResult[1].person = payResult[2].person
    /\ payResult[1].creditor # payResult[2].creditor
    /\ payResult[1].amount > 1

\* A debt that is marked settled or carries a settlement time.
MarkedSettled(debt) ==
    \/ "settled" \in DOMAIN debt /\ debt.settled = TRUE
    \/ "settledAt" \in DOMAIN debt /\ debt.settledAt # Null

\* No stored debt is marked settled.
NoneSettled(state) ==
    state.debts # Null
        => \A k \in 1..Len(state.debts[1]) : ~MarkedSettled(state.debts[1][k])

\* C27: recalculation resets the settlement status.  Whatever debts the
\* stored state marks as settled, the state that follows an accepted
\* setExpense submission, or a create, update or delete of the groups route,
\* has no debt with settled = true or with a settledAt value.
C27_RecalculationResetsSettlement ==
    /\ \A person \in AcceptedPersons, amountRaw \in AcceptedAmounts,
          groupId \in {""} \cup Range(GroupIdList), id \in GeneratedIds :
           NoneSettled(AfterRequest(AddExpense(getState,
                           NewExpense(id, person, ReplaceComma(amountRaw), groupId))))
    /\ \A action \in RouteActions, id \in Range(GroupIdList), name \in GroupNames,
          participantsJson \in ParticipantInputs :
           LET answer == GroupsRoute(getState, action, id, name, participantsJson)
           IN  answer.updatedState # Null
                   => NoneSettled(AfterRequest(answer.updatedState[1]))

\* A stored debt is marked settled, and one more expense of its creditor
\* leaves a debt to be paid, which is stored unsettled.
C27_Witness ==
    /\ getState.debts # Null
    /\ \E k \in 1..Len(getState.debts[1]) :
           /\ MarkedSettled(getState.debts[1][k])
           /\ \E amountRaw \in AcceptedAmounts, id \in GeneratedIds :
                  LET after == AfterRequest(AddExpense(getState,
                                   NewExpense(id, getState.debts[1][k].creditor,
                                              ReplaceComma(amountRaw), "")))
                  IN  /\ Len(after.debts[1]) > 0
                      /\ NoneSettled(after)

\* The submissions that setExpense rejects: no person, or an amount that
\* Number() turns into NaN.
RejectedSubmission(person, amountRaw) ==
    person = "" \/ Number(ReplaceComma(amountRaw)) = Null

\* What the handlers answer on the stored state: a rejected submission sets
\* the error message and hands nothing to setState, an accepted one clears
\* the message, and an unknown action of the groups route is answered with
\* status 400 and hands nothing to setState.
C28_Answers ==
    /\ \A person \in PersonInputs, amountRaw \in AmountInputs,
          groupId \in GroupIdInputs, id \in GeneratedIds :
           LET result == SetExpenseResult(getState, id, person, amountRaw, groupId)
           IN  IF RejectedSubmission(person, amountRaw)
               THEN /\ result.errorMessage = translations(getState.language)
                    /\ result.errorMessage # ""
                    /\ result.newExpense = Null
               ELSE result.errorMessage = ""
    /\ \A action \in RouteActions \ {"create", "update", "delete"},
          id \in Range(GroupIdList), name \in GroupNames,
          participantsJson \in ParticipantInputs :
           GroupsRoute(getState, action, id, name, participantsJson)
               = [status |-> 400, updatedState |-> Null]

\* A step that sets a new error message leaves the cookie as it is, a step
\* that adds an expense clears the message, and so does a step that deletes
\* the cookie.
C28_Steps ==
    /\ (errorMessage' # errorMessage /\ errorMessage' # "") => cookie' = cookie
    /\ Len(getState'.expenses) > Len(getState.expenses) => errorMessage' = ""
    /\ (cookie # Null /\ cookie' = Null) => errorMessage' = ""

\* C28: rejected requests leave the stored state unchanged.  A setExpense
\* submission with an empty person or a non-numeric amount sets the error
\* message and changes neither expenses, groups nor debts; a request to the
\* groups route with an action other than create, update or delete is
\* answered with status 400 and changes nothing; a later valid submission
\* or a reset clears the error message.
C28_RejectedRequestsChangeNothing == []C28_Answers /\ [][C28_Steps]_vars

\* The error message is set on a stored state with an expense and a debt:
\* the submission that set it came after the one that stored the expense.
C28_Witness ==
    /\ errorMessage # ""
    /\ Len(getState.expenses) >= 2
    /\ getState.debts # Null
    /\ Len(getState.debts[1]) > 0

\* The stored state carries no version: it is of version 1.
WithoutVersion(stored) == "version" \notin DOMAIN stored

\* C29: state migration.  For a stored state without a version, getState
\* returns a state of version 2 with a groups list and an id on every
\* expense, with the person and the amount of every stored expense in the
\* stored order; for a stored state of version 2, getState returns every
\* stored field as it is stored; and migrating what getState returns gives
\* the same state again.
C29_Migration ==
    cookie # Null =>
        LET stored == cookie[1]
            state  == getState
        IN  /\ WithoutVersion(stored) =>
                   /\ state.version = CURRENT_VERSION
                   /\ "groups" \in DOMAIN state
                   /\ state.groups \in Seq([id : STRING, name : STRING,
                                             participants : Seq(STRING)])
                   /\ Len(state.expenses) = Len(stored.expenses)
                   /\ \A i \in 1..Len(stored.expenses) :
                          /\ "id" \in DOMAIN state.expenses[i]
                          /\ state.expenses[i].id # ""
                          /\ state.expenses[i].person = stored.expenses[i].person
                          /\ state.expenses[i].amount = stored.expenses[i].amount
            /\ (~WithoutVersion(stored) /\ stored.version = CURRENT_VERSION) =>
                   \A field \in DOMAIN stored : state[field] = stored[field]
            /\ migrateState(state) = state

\* A cookie of the first version with two expenses of two persons, read by
\* a rejected submission: getState returns the expenses with the ids of
\* their places.
C29_Witness ==
    /\ cookie # Null
    /\ errorMessage # ""
    /\ WithoutVersion(cookie[1])
    /\ Len(cookie[1].expenses) = 2
    /\ cookie[1].expenses[1].person # cookie[1].expenses[2].person
    /\ cookie[1].expenses[2].amount > 0
    /\ getState.expenses[2].id = "migrated-1"
    /\ getState.version = 2

\* The fields of two states agree, except those of the set.
SameExcept(before, after, fields) ==
    /\ DOMAIN after = DOMAIN before
    /\ \A k \in DOMAIN before \ fields : after[k] = before[k]

\* What a step of the page changes, for the steps that store a state:
\* one that changes the language or the theme changes no other field, one
\* that adds an expense changes the expenses and the debts only, and one
\* that adds a group or changes one changes the groups and the debts only.
C30_Steps ==
    (cookie' # Null /\ cookie' # cookie) =>
        LET before == getState
            after  == getState'
        IN  /\ after.language # before.language
                   => SameExcept(before, after, {"language"})
            /\ after.theme # before.theme
                   => SameExcept(before, after, {"theme"})
            /\ Len(after.expenses) > Len(before.expenses)
                   => /\ SameExcept(before, after, {"expenses", "debts"})
                      /\ SubSeq(after.expenses, 1, Len(before.expenses)) = before.expenses
            /\ (after.groups # before.groups /\ Len(after.groups) >= Len(before.groups))
                   => SameExcept(before, after, {"groups", "debts"})

\* C30: setState merges rather than replaces.  Toggling the language or
\* the theme leaves the expenses, the groups and the debts (and every other
\* field) unchanged, adding an expense leaves groups, language and theme
\* unchanged, and a create or update of a group leaves the expenses
\* unchanged; and without a cookie, as after resetState, getState returns
\* the default state.
C30_SetStateMerges ==
    /\ [](cookie = Null => getState = defaultState)
    /\ [][C30_Steps]_vars

\* A stored state with an expense, a group and a debt, in the language and
\* the theme that are not the default ones.
C30_Witness ==
    /\ cookie # Null
    /\ Len(getState.expenses) = 1
    /\ Len(getState.groups) = 1
    /\ getState.debts # Null
    /\ Len(getState.debts[1]) = 1
    /\ getState.language = "en"
    /\ getState.theme = "light"

=============================================================================
